---- MODULE Spec2Model ----
(***************************************************************************)
(* PROXY protocol plugin: header detection, the v1 and v2 parsers, the     *)
(* header-stripping processor, the two HTTP endpoints the host calls and   *)
(* the connection adapter (ProxyProtocolListener / proxyProtocolConn).     *)
(*                                                                         *)
(* A byte is a number in 0..255, a []byte or a Go string is a sequence of  *)
(* bytes.  Go offsets are 0-based: data[i] is written At(data, i) and      *)
(* data[i:] is written From(data, i).                                      *)
(***************************************************************************)
EXTENDS Integers, Sequences, FiniteSets, TLC

\* ------------------------------------------------------------ byte slices

Min(a, b) == IF a < b THEN a ELSE b

\* data[i] for a 0-based offset i
At(s, i) == s[i + 1]

\* data[i:]
From(s, i) == SubSeq(s, i + 1, Len(s))

\* data[:i]
Upto(s, i) == SubSeq(s, 1, i)

\* bytes.HasPrefix / strings.HasPrefix
HasPrefix(s, p) == Len(s) >= Len(p) /\ SubSeq(s, 1, Len(p)) = p

\* bytes.Index: the 0-based offset of the first occurrence of sep, or -1
Index(s, sep) ==
    LET hits == { i \in 0..(Len(s) - Len(sep)) : SubSeq(s, i + 1, i + Len(sep)) = sep }
    IN  IF hits = {} THEN -1 ELSE CHOOSE i \in hits : \A j \in hits : i <= j

\* the bytes of a sequence of chunks, in order
RECURSIVE Flatten(_)
Flatten(chunks) ==
    IF chunks = <<>> THEN <<>> ELSE Head(chunks) \o Flatten(Tail(chunks))

\* make([]byte, n) filled from the front with p: what a short Read leaves
ZeroFill(p, n) == [i \in 1..n |-> IF i <= Len(p) THEN p[i] ELSE 0]

\* ------------------------------------------------------------------ text

CRLF == <<13, 10>>
Colon == <<58>>
Dot == <<46>>
Space == <<32>>

\* unicode.IsSpace on the bytes a header line can hold: \t \n \v \f \r ' '
IsSpace(c) == c \in {9, 10, 11, 12, 13, 32}

\* strings.TrimSpace
RECURSIVE TrimLeft(_)
TrimLeft(s) ==
    IF s # <<>> /\ IsSpace(Head(s)) THEN TrimLeft(Tail(s)) ELSE s

RECURSIVE TrimRight(_)
TrimRight(s) ==
    IF s # <<>> /\ IsSpace(s[Len(s)]) THEN TrimRight(SubSeq(s, 1, Len(s) - 1)) ELSE s

TrimSpace(s) == TrimRight(TrimLeft(s))

\* strings.Split(s, " "): every single space separates two fields, so two
\* spaces in a row give an empty field
RECURSIVE Split(_)
Split(s) ==
    LET i == Index(s, Space)
    IN  IF i = -1 THEN <<s>> ELSE <<Upto(s, i)>> \o Split(From(s, i + 1))

\* strings.Fields: maximal runs of non-space bytes
RECURSIVE Fields(_)
Fields(s) ==
    LET t == TrimLeft(s)
        ends == { i \in 1..Len(t) : IsSpace(t[i]) }
        e == IF ends = {} THEN Len(t) + 1 ELSE CHOOSE i \in ends : \A j \in ends : i <= j
    IN  IF t = <<>> THEN <<>>
        ELSE <<SubSeq(t, 1, e - 1)>> \o Fields(SubSeq(t, e, Len(t)))

IsDigit(c) == c \in 48..57

\* strconv.Itoa, and fmt's %d of an int
RECURSIVE Digits(_)
Digits(n) ==
    IF n < 10 THEN <<48 + n>> ELSE Digits(n \div 10) \o <<48 + (n % 10)>>

Itoa(n) == IF n < 0 THEN <<45>> \o Digits(0 - n) ELSE Digits(n)

RECURSIVE DigitsValue(_)
DigitsValue(s) ==
    IF s = <<>> THEN 0 ELSE 10 * DigitsValue(SubSeq(s, 1, Len(s) - 1)) + (s[Len(s)] - 48)

\* the longest prefix of s made of digits and underscores: the token fmt's
\* scanner collects for the verb %d
RECURSIVE NumberToken(_)
NumberToken(s) ==
    IF s # <<>> /\ (IsDigit(Head(s)) \/ Head(s) = 95)
    THEN <<Head(s)>> \o NumberToken(Tail(s))
    ELSE <<>>

\* fmt.Sscanf(field, "%d", &port) with port == 0 before the call and the
\* returned error dropped: leading blanks are skipped, a sign is accepted,
\* the digits are converted, and whatever follows them is left unread.  With
\* no digit, or an underscore among them, the scan fails and port stays 0.
SscanfInt(field) ==
    LET t == TrimLeft(field)
        neg == t # <<>> /\ Head(t) = 45
        signed == t # <<>> /\ Head(t) \in {43, 45}
        tok == NumberToken(IF signed THEN Tail(t) ELSE t)
    IN  IF tok = <<>> \/ (\E i \in 1..Len(tok) : tok[i] = 95) THEN 0
        ELSE IF neg THEN 0 - DigitsValue(tok) ELSE DigitsValue(tok)

\* ------------------------------------------------------- bufio.Reader
\* A reader is [buf, rd]: buf holds the bytes read from the underlying
\* stream and not yet consumed, rd the chunks the underlying stream will
\* still return, one chunk per Read call on it.  Once rd is empty the
\* underlying Read fails (io.EOF for bytes.Reader and a closed peer, a
\* timeout for a connection whose read deadline passes).  Every chunk of the
\* model is shorter than bufio's 4096-byte buffer.

NewReader(chunks) == [buf |-> <<>>, rd |-> chunks]

\* one Read call on the underlying stream, appended to the buffer
fill(b) == [buf |-> b.buf \o Head(b.rd), rd |-> Tail(b.rd)]

\* (*bufio.Reader).Read(p) with len(p) == n: at most one Read on the
\* underlying stream, and only when nothing is buffered; it returns what is
\* buffered (at most n bytes) without waiting for more.
Read(b, n) ==
    IF n = 0 THEN [p |-> <<>>, err |-> FALSE, b |-> b]
    ELSE IF b.buf = <<>> /\ b.rd = <<>> THEN [p |-> <<>>, err |-> TRUE, b |-> b]
    ELSE LET f == IF b.buf = <<>> THEN fill(b) ELSE b
             k == Min(n, Len(f.buf))
         IN  [p |-> Upto(f.buf, k), err |-> FALSE,
              b |-> [buf |-> From(f.buf, k), rd |-> f.rd]]

\* (*bufio.Reader).ReadByte
RECURSIVE ReadByte(_)
ReadByte(b) ==
    IF b.buf # <<>> THEN [c |-> Head(b.buf), err |-> FALSE,
                          b |-> [buf |-> Tail(b.buf), rd |-> b.rd]]
    ELSE IF b.rd = <<>> THEN [c |-> 0, err |-> TRUE, b |-> b]
    ELSE ReadByte(fill(b))

\* (*bufio.Reader).ReadString(delim): through the first delim, or
\* everything there is and an error when the stream ends before one
RECURSIVE ReadString(_, _)
ReadString(b, delim) ==
    LET i == Index(b.buf, <<delim>>)
    IN  IF i # -1 THEN [line |-> Upto(b.buf, i + 1), err |-> FALSE,
                        b |-> [buf |-> From(b.buf, i + 1), rd |-> b.rd]]
        ELSE IF b.rd = <<>> THEN [line |-> b.buf, err |-> TRUE,
                                  b |-> [buf |-> <<>>, rd |-> b.rd]]
        ELSE ReadString(fill(b), delim)

\* (*bufio.Reader).Peek(n): reads from the underlying stream until n bytes
\* are buffered; the bytes stay in the buffer, also when it fails
RECURSIVE Peek(_, _)
Peek(b, n) ==
    IF Len(b.buf) >= n THEN [peek |-> Upto(b.buf, n), err |-> FALSE, b |-> b]
    ELSE IF b.rd = <<>> THEN [peek |-> b.buf, err |-> TRUE, b |-> b]
    ELSE Peek(fill(b), n)

\* the bytes a reader will still deliver
Unread(b) == b.buf \o Flatten(b.rd)

\* ---------------------------------------------------- ProxyProtocolInfo

\* "PROXY " and the 12-byte v2 signature
ProxyProtocolV1Prefix == <<80, 82, 79, 88, 89, 32>>
ProxyProtocolV2Prefix == <<13, 10, 13, 10, 0, 13, 10, 81, 85, 73, 84, 10>>

\* the transport tokens "PROXY", "TCP4", "TCP6", "UNKNOWN"
PROXY == <<80, 82, 79, 88, 89>>
TCP4 == <<84, 67, 80, 52>>
TCP6 == <<84, 67, 80, 54>>
UNKNOWN == <<85, 78, 75, 78, 79, 87, 78>>

\* a nil *ProxyProtocolInfo
NilInfo == [nil |-> TRUE]

\* &ProxyProtocolInfo{...}; fields the literal leaves out are "" and 0
ProxyProtocolInfo(src, dst, sport, dport, version, proto) ==
    [nil |-> FALSE, SourceAddr |-> src, DestAddr |-> dst, SourcePort |-> sport,
     DestPort |-> dport, Version |-> version, TransportProto |-> proto]

\* fmt.Sprintf("%d.%d.%d.%d", a[0], a[1], a[2], a[3])
SprintfIPv4(a) ==
    Itoa(a[1]) \o Dot \o Itoa(a[2]) \o Dot \o Itoa(a[3]) \o Dot \o Itoa(a[4])

\* lower-case hexadecimal without leading zeros
RECURSIVE Hex(_)
Hex(n) ==
    LET d == n % 16
        c == IF d < 10 THEN 48 + d ELSE 87 + d
    IN  IF n < 16 THEN <<c>> ELSE Hex(n \div 16) \o <<c>>

\* net.IP(b).String() of a 16-byte address: an IPv4-mapped address
\* (::ffff:a.b.c.d, what To4 recognises) is written as the dotted quad,
\* anything else in the RFC 5952 form, the first longest run of two or more
\* zero groups replaced by "::"
IPString(ip) ==
    LET g(i) == ip[2 * i + 1] * 256 + ip[2 * i + 2]
        run(i) == LET stops == { j \in i..7 : g(j) # 0 }
                  IN  IF stops = {} THEN 8 - i
                      ELSE (CHOOSE j \in stops : \A k \in stops : j <= k) - i
        runs == { i \in 0..7 : run(i) >= 2 }
        zeroStart == IF runs = {} THEN 255
                     ELSE CHOOSE i \in runs :
                            \A j \in runs : run(i) > run(j) \/ (run(i) = run(j) /\ i <= j)
        zeroEnd == IF runs = {} THEN 255 ELSE zeroStart + run(zeroStart)
        emit[i \in 0..8] ==
            IF i >= 8 THEN <<>>
            ELSE IF i = zeroStart
                 THEN Colon \o Colon \o
                      (IF zeroEnd >= 8 THEN <<>> ELSE Hex(g(zeroEnd)) \o emit[zeroEnd + 1])
                 ELSE (IF i > 0 THEN Colon ELSE <<>>) \o Hex(g(i)) \o emit[i + 1]
        is4in6 == (\A i \in 1..10 : ip[i] = 0) /\ ip[11] = 255 /\ ip[12] = 255
    IN  IF is4in6 THEN SprintfIPv4(SubSeq(ip, 13, 16)) ELSE emit[0]

\* ------------------------------------------------------------- parsers
\* A parser returns [info, err, b]: the info (NilInfo with an error), whether
\* it returned an error, and the reader as the call left it.

\* a plausible slip: the first field is not compared with "PROXY"
parseProxyProtocolV1_AnyKeyword(reader) ==
    LET r == ReadString(reader, 10)
        line == TrimSpace(r.line)
        parts == Split(line)
    IN  IF r.err THEN [info |-> NilInfo, err |-> TRUE, b |-> r.b]
        ELSE IF Len(parts) < 6 THEN [info |-> NilInfo, err |-> TRUE, b |-> r.b]
        ELSE [info |-> ProxyProtocolInfo(parts[3], parts[4], SscanfInt(parts[5]),
                                         SscanfInt(parts[6]), 1, parts[2]),
              err |-> FALSE, b |-> r.b]

parseProxyProtocolV1(reader) ==
    LET r == ReadString(reader, 10)
        line == TrimSpace(r.line)
        parts == Split(line)
    IN  IF r.err THEN [info |-> NilInfo, err |-> TRUE, b |-> r.b]
        ELSE IF Len(parts) < 6 THEN [info |-> NilInfo, err |-> TRUE, b |-> r.b]
        ELSE IF parts[1] # PROXY THEN [info |-> NilInfo, err |-> TRUE, b |-> r.b]
        ELSE [info |-> ProxyProtocolInfo(parts[3], parts[4], SscanfInt(parts[5]),
                                         SscanfInt(parts[6]), 1, parts[2]),
              err |-> FALSE, b |-> r.b]

\* a plausible slip: a family that is not IPv4 or IPv6 is let through as
\* an info without addresses
DecodeAddresses_AnyFamily(af, addrLen, addrData, b) ==
    IF af = 1 THEN
        IF addrLen < 12 THEN [info |-> NilInfo, err |-> TRUE, b |-> b]
        ELSE [info |-> ProxyProtocolInfo(SprintfIPv4(SubSeq(addrData, 1, 4)),
                                         SprintfIPv4(SubSeq(addrData, 5, 8)),
                                         addrData[9] * 256 + addrData[10],
                                         addrData[11] * 256 + addrData[12], 2, TCP4),
              err |-> FALSE, b |-> b]
    ELSE IF af = 2 THEN
        IF addrLen < 36 THEN [info |-> NilInfo, err |-> TRUE, b |-> b]
        ELSE [info |-> ProxyProtocolInfo(IPString(SubSeq(addrData, 1, 16)),
                                         IPString(SubSeq(addrData, 17, 32)),
                                         addrData[33] * 256 + addrData[34],
                                         addrData[35] * 256 + addrData[36], 2, TCP6),
              err |-> FALSE, b |-> b]
    ELSE [info |-> ProxyProtocolInfo(<<>>, <<>>, 0, 0, 2, UNKNOWN), err |-> FALSE, b |-> b]

\* a plausible slip: the minimum of each family is one byte too low
DecodeAddresses_OffByOne(af, addrLen, addrData, b) ==
    IF af = 1 THEN
        IF addrLen < 11 THEN [info |-> NilInfo, err |-> TRUE, b |-> b]
        ELSE [info |-> ProxyProtocolInfo(SprintfIPv4(SubSeq(addrData, 1, 4)),
                                         SprintfIPv4(SubSeq(addrData, 5, 8)),
                                         addrData[9] * 256 + addrData[10],
                                         ZeroFill(addrData, 12)[11] * 256
                                             + ZeroFill(addrData, 12)[12], 2, TCP4),
              err |-> FALSE, b |-> b]
    ELSE IF af = 2 THEN
        IF addrLen < 35 THEN [info |-> NilInfo, err |-> TRUE, b |-> b]
        ELSE [info |-> ProxyProtocolInfo(IPString(SubSeq(addrData, 1, 16)),
                                         IPString(SubSeq(addrData, 17, 32)),
                                         addrData[33] * 256 + addrData[34],
                                         ZeroFill(addrData, 36)[35] * 256
                                             + ZeroFill(addrData, 36)[36], 2, TCP6),
              err |-> FALSE, b |-> b]
    ELSE [info |-> NilInfo, err |-> TRUE, b |-> b]

\* the address family switch of parseProxyProtocolV2, on the family nibble,
\* the declared length and the address buffer (zero-filled by make where the
\* read came up short)
DecodeAddresses(af, addrLen, addrData, b) ==
    IF af = 1 THEN
        IF addrLen < 12 THEN [info |-> NilInfo, err |-> TRUE, b |-> b]
        ELSE [info |-> ProxyProtocolInfo(SprintfIPv4(SubSeq(addrData, 1, 4)),
                                         SprintfIPv4(SubSeq(addrData, 5, 8)),
                                         addrData[9] * 256 + addrData[10],
                                         addrData[11] * 256 + addrData[12], 2, TCP4),
              err |-> FALSE, b |-> b]
    ELSE IF af = 2 THEN
        IF addrLen < 36 THEN [info |-> NilInfo, err |-> TRUE, b |-> b]
        ELSE [info |-> ProxyProtocolInfo(IPString(SubSeq(addrData, 1, 16)),
                                         IPString(SubSeq(addrData, 17, 32)),
                                         addrData[33] * 256 + addrData[34],
                                         addrData[35] * 256 + addrData[36], 2, TCP6),
              err |-> FALSE, b |-> b]
    ELSE [info |-> NilInfo, err |-> TRUE, b |-> b]

parseProxyProtocolV2(reader) ==
    LET sig == Read(reader, 12)
        vc == ReadByte(sig.b)
        version == vc.c \div 16
        command == vc.c % 16
        afp == ReadByte(vc.b)
        af == afp.c \div 16
        lb == Read(afp.b, 2)
        lenBytes == ZeroFill(lb.p, 2)
        addrLen == lenBytes[1] * 256 + lenBytes[2]
        ad == Read(lb.b, addrLen)
        addrData == ZeroFill(ad.p, addrLen)
    IN  IF sig.err THEN [info |-> NilInfo, err |-> TRUE, b |-> sig.b]
        ELSE IF vc.err THEN [info |-> NilInfo, err |-> TRUE, b |-> vc.b]
        ELSE IF version # 2 THEN [info |-> NilInfo, err |-> TRUE, b |-> vc.b]
        ELSE IF command # 1
             THEN [info |-> ProxyProtocolInfo(<<>>, <<>>, 0, 0, 2, UNKNOWN),
                   err |-> FALSE, b |-> vc.b]
        ELSE IF afp.err THEN [info |-> NilInfo, err |-> TRUE, b |-> afp.b]
        ELSE IF lb.err THEN [info |-> NilInfo, err |-> TRUE, b |-> lb.b]
        ELSE IF ad.err THEN [info |-> NilInfo, err |-> TRUE, b |-> ad.b]
        ELSE DecodeAddresses(af, addrLen, addrData, ad.b)

\* --------------------------------------------- detection and processing

\* a plausible slip: the line's fields are checked, the "PROXY " prefix is not
DetectV1_NoPrefix(data) ==
    LET idx == Index(data, CRLF)
        parts == Fields(Upto(data, idx))
    IN  /\ idx # -1
        /\ Len(parts) >= 6
        /\ parts[1] = PROXY

\* a plausible slip: the prefix alone decides, no terminator is looked for
DetectV1_NoTerminator(data) ==
    /\ Len(data) >= Len(ProxyProtocolV1Prefix)
    /\ HasPrefix(data, ProxyProtocolV1Prefix)

\* the v1 branch of detectProxyProtocol
DetectV1(data) ==
    LET idx == Index(data, CRLF)
        parts == Fields(Upto(data, idx))
    IN  /\ Len(data) >= Len(ProxyProtocolV1Prefix)
        /\ HasPrefix(data, ProxyProtocolV1Prefix)
        /\ idx # -1
        /\ Len(parts) >= 6
        /\ parts[1] = PROXY

\* a plausible slip: the version is checked, the command is not
DetectV2_AnyCommand(data) ==
    /\ Len(data) >= Len(ProxyProtocolV2Prefix)
    /\ Upto(data, Len(ProxyProtocolV2Prefix)) = ProxyProtocolV2Prefix
    /\ Len(data) >= 16
    /\ At(data, 12) \div 16 = 2

\* the v2 branch of detectProxyProtocol
DetectV2(data) ==
    /\ Len(data) >= Len(ProxyProtocolV2Prefix)
    /\ Upto(data, Len(ProxyProtocolV2Prefix)) = ProxyProtocolV2Prefix
    /\ Len(data) >= 16
    /\ At(data, 12) \div 16 = 2
    /\ At(data, 12) % 16 \in {0, 1}

detectProxyProtocol(data) ==
    IF Len(data) = 0 THEN FALSE ELSE DetectV1(data) \/ DetectV2(data)

\* a nil []byte; len(nil) == 0, but nil # []byte{}
NilData == [nil |-> TRUE, bytes |-> <<>>]
Data(s) == [nil |-> FALSE, bytes |-> s]

\* a plausible slip: the input is handed back beside the error
ProcessError_KeepsData(data) == [data |-> Data(data), info |-> NilInfo, err |-> TRUE]

\* return nil, nil, err
ProcessError(data) == [data |-> NilData, info |-> NilInfo, err |-> TRUE]

\* a plausible slip: the family's fixed block is skipped, not the declared one
V2HeaderLen_FamilyMinimum(data) == 16 + (IF At(data, 13) \div 16 = 2 THEN 36 ELSE 12)

\* headerLen: 16 plus the big-endian length field at offsets 14 and 15
V2HeaderLen(data) == 16 + (At(data, 14) * 256 + At(data, 15))

\* processProxyProtocolData returns [data, info, err]
processProxyProtocolData(data) ==
    LET reader == NewReader(<<data>>)
        v1 == parseProxyProtocolV1(reader)
        headerEnd == Index(data, CRLF)
        v2 == parseProxyProtocolV2(reader)
        headerLen == V2HeaderLen(data)
    IN  IF Len(data) = 0 THEN [data |-> Data(data), info |-> NilInfo, err |-> FALSE]
        ELSE IF Len(data) >= Len(ProxyProtocolV1Prefix)
                /\ HasPrefix(data, ProxyProtocolV1Prefix)
        THEN IF v1.err THEN ProcessError(data)
             ELSE IF headerEnd = -1 THEN ProcessError(data)
             ELSE [data |-> Data(From(data, headerEnd + 2)), info |-> v1.info, err |-> FALSE]
        ELSE IF Len(data) >= Len(ProxyProtocolV2Prefix)
                /\ Upto(data, Len(ProxyProtocolV2Prefix)) = ProxyProtocolV2Prefix
        THEN IF v2.err THEN ProcessError(data)
             ELSE IF Len(data) < 16 THEN ProcessError(data)
             ELSE IF Len(data) < headerLen THEN ProcessError(data)
             ELSE [data |-> Data(From(data, headerLen)), info |-> v2.info, err |-> FALSE]
        ELSE [data |-> Data(data), info |-> NilInfo, err |-> FALSE]

\* ------------------------------------------------------------ the inputs
\* Bounds of the model.

\* the longest run of TLV bytes after the fixed part of a v2 address block
MaxTLV == 2
\* the longest byte string enumerated over Alphabet
MaxRaw == 2

\* 'P', ' ', CR, LF, 0x16 (a TLS handshake record) and NUL
Alphabet == {80, 32, 13, 10, 22, 0}

Raw == UNION { [1..k -> Alphabet] : k \in 0..MaxRaw }

\* An address: its literal and the bytes an encoder puts on the wire.
\* 192.0.2.100
Client4 == [text |-> <<49, 57, 50, 46, 48, 46, 50, 46, 49, 48, 48>>,
            bytes |-> <<192, 0, 2, 100>>]
\* 198.51.100.50
Server4 == [text |-> <<49, 57, 56, 46, 53, 49, 46, 49, 48, 48, 46, 53, 48>>,
            bytes |-> <<198, 51, 100, 50>>]
\* 255.255.255.255
Broadcast4 == [text |-> <<50, 53, 53, 46, 50, 53, 53, 46, 50, 53, 53, 46, 50, 53, 53>>,
               bytes |-> <<255, 255, 255, 255>>]
\* 2001:db8::1
Client6 == [text |-> <<50, 48, 48, 49, 58, 100, 98, 56, 58, 58, 49>>,
            bytes |-> <<32, 1, 13, 184, 0, 0, 0, 0, 0, 0, 0, 0, 0, 0, 0, 1>>]
\* 2001:db8:0:1:1:1:1:1
Server6 == [text |-> <<50, 48, 48, 49, 58, 100, 98, 56, 58, 48, 58, 49, 58, 49, 58, 49, 58,
                       49, 58, 49>>,
            bytes |-> <<32, 1, 13, 184, 0, 0, 0, 1, 0, 1, 0, 1, 0, 1, 0, 1>>]
\* ::1
Loopback6 == [text |-> <<58, 58, 49>>,
              bytes |-> <<0, 0, 0, 0, 0, 0, 0, 0, 0, 0, 0, 0, 0, 0, 0, 1>>]
\* ::ffff:192.0.2.1, an IPv4-mapped IPv6 address
Mapped6 == [text |-> <<58, 58, 102, 102, 102, 102, 58, 49, 57, 50, 46, 48, 46, 50, 46, 49>>,
            bytes |-> <<0, 0, 0, 0, 0, 0, 0, 0, 0, 0, 255, 255, 192, 0, 2, 1>>]

Addrs4 == {Client4, Server4, Broadcast4}
Addrs6 == {Client6, Server6, Loopback6, Mapped6}

PortPairs == { <<45678, 443>>, <<0, 65535>>, <<65535, 0>>, <<80, 8080>> }

\* An endpoint to encode: the family nibble, the two addresses, the ports.
Endpoints ==
    { [af |-> 1, src |-> a, dst |-> b, sport |-> p[1], dport |-> p[2]] :
        a \in Addrs4, b \in Addrs4, p \in PortPairs }
    \cup
    { [af |-> 2, src |-> a, dst |-> b, sport |-> p[1], dport |-> p[2]] :
        a \in Addrs6, b \in Addrs6, p \in PortPairs }

Transport(e) == IF e.af = 1 THEN TCP4 ELSE TCP6

\* the endpoint as the info a parser of the given version is to return
InfoOf(e, version) ==
    ProxyProtocolInfo(e.src.text, e.dst.text, e.sport, e.dport, version, Transport(e))

BE16(n) == <<n \div 256, n % 256>>

\* "PROXY <transport> <src> <dst> <sport> <dport>\r\n"
EncodeV1(e) ==
    PROXY \o Space \o Transport(e) \o Space \o e.src.text \o Space \o e.dst.text
          \o Space \o Itoa(e.sport) \o Space \o Itoa(e.dport) \o CRLF

\* signature, version/command, family/protocol, big-endian length, block
V2Header(verCmd, famProto, length, block) ==
    ProxyProtocolV2Prefix \o <<verCmd, famProto>> \o BE16(length) \o block

\* the bytes of a TLV run of length n
TLV(n) == [i \in 1..n |-> 200 + i]

\* a v2 PROXY header (0x21, family nibble, STREAM) with n TLV bytes
EncodeV2(e, n) ==
    V2Header(33, e.af * 16 + 1, (IF e.af = 1 THEN 12 ELSE 36) + n,
             e.src.bytes \o e.dst.bytes \o BE16(e.sport) \o BE16(e.dport) \o TLV(n))

\* a v2 LOCAL header (0x20) with a block of n bytes
EncodeLocal(famProto, n) == V2Header(32, famProto, n, TLV(n))

Sample4 == [af |-> 1, src |-> Client4, dst |-> Server4, sport |-> 45678, dport |-> 443]
Sample6 == [af |-> 2, src |-> Client6, dst |-> Server6, sport |-> 12345, dport |-> 443]
Samples == {Sample4, Sample6}

\* "GET / HTTP/1.1\r\n\r\n"
HttpRequest == <<71, 69, 84, 32, 47, 32, 72, 84, 84, 80, 47, 49, 46, 49, 13, 10, 13, 10>>
\* the start of a TLS ClientHello record
TlsHello == <<22, 3, 1, 0, 244, 1, 0, 0, 240>>

\* payloads: none, HTTP, TLS, one that starts with CRLF, two that start
\* with a PROXY signature themselves, and every short string over Alphabet
FixedPayloads ==
    { <<>>, HttpRequest, TlsHello, CRLF \o <<88>>, EncodeV1(Sample4), EncodeLocal(0, 0) }

Payloads == FixedPayloads \cup Raw

\* A case is an input cut in two: kind says what the header part is,
\*   "v1", "v2"  a header encoded from the endpoint info origin
\*   "local"     a v2 LOCAL header
\*   "cut1"      a v1 line lacking its terminating CRLF
\*   "cut2"      a v2 header with fewer block bytes than it declares
\*   "other"     anything else
Case(kind, header, payload, origin) ==
    [kind |-> kind, header |-> header, payload |-> payload, origin |-> origin]

ValidCases ==
    { Case("v1", EncodeV1(e), <<>>, InfoOf(e, 1)) : e \in Endpoints }
    \cup { Case("v2", EncodeV2(e, 0), <<>>, InfoOf(e, 2)) : e \in Endpoints }
    \cup { Case("v1", EncodeV1(e), p, InfoOf(e, 1)) : e \in Samples, p \in Payloads }
    \cup { Case("v2", EncodeV2(e, n), p, InfoOf(e, 2)) :
             e \in Samples, n \in 0..MaxTLV, p \in Payloads }
    \cup { Case("local", EncodeLocal(f, n), p, NilInfo) :
             f \in {0, 17}, n \in 0..MaxTLV, p \in Payloads }

\* a v1 line cut anywhere after "PROXY ", or ended by a bare LF
CutV1(e) ==
    LET h == EncodeV1(e)
    IN  { Upto(h, k) : k \in 6..(Len(h) - 1) } \cup { Upto(h, Len(h) - 2) \o <<10>> }

\* a v2 header cut anywhere inside its block
CutV2(h) == { Upto(h, k) : k \in 16..(Len(h) - 1) }

CutCases ==
    { Case("cut1", h, <<>>, NilInfo) : h \in UNION { CutV1(e) : e \in Samples } }
    \cup { Case("cut2", h, <<>>, NilInfo) :
             h \in UNION { CutV2(EncodeV2(e, n)) : e \in Samples, n \in 0..MaxTLV } }
    \cup { Case("cut2", h, <<>>, NilInfo) :
             h \in UNION { CutV2(EncodeLocal(0, n)) : n \in 1..MaxTLV } }

\* v2 headers of every shape: version/command 0x20 0x21 0x22 0x2F 0x11 0x31,
\* family/protocol 0x00 0x11 0x12 0x21 0x31, declared lengths around the
\* family minimums, and a block shorter, equal and longer than declared
Filler(n) == [i \in 1..n |-> (37 * i) % 256]
GridV2 ==
    { V2Header(vc, fp, l, Filler(a)) :
        vc \in {32, 33, 34, 47, 17, 49}, fp \in {0, 17, 18, 33, 49},
        l \in {0, 11, 12, 13, 35, 36}, a \in {0, 6, 11, 12, 14, 35, 36, 38} }

IsCutV2(h) ==
    /\ At(h, 12) \in {32, 33}
    /\ Len(h) - 16 < At(h, 14) * 256 + At(h, 15)

\* v1 lines that are not well formed: four fields, three fields, no CRLF at
\* all within a line, lower case, no space after PROXY, two spaces in a row,
\* a tab for a space, a bare LF before the CRLF, the two-field UNKNOWN form,
\* a port that is no number, seven fields, a trailing space, another token,
\* a tab between the second and the third field, a port of 70000, five
\* fields and a trailing space, a whole line with "proxy" in lower case,
\* five tokens with two spaces in a row
OddV1 ==
    { <<80, 82, 79, 88, 89, 32, 84, 67, 80, 52, 32, 49, 57, 50, 46, 48, 46, 50, 46, 49, 32,
        49, 57, 56, 46, 53, 49, 46, 49, 48, 48, 46, 49, 13, 10>>,
      <<80, 82, 79, 88, 89, 32, 84, 67, 80, 52, 32, 105, 110, 118, 97, 108, 105, 100, 95,
        102, 111, 114, 109, 97, 116, 13, 10>>,
      <<112, 114, 111, 120, 121, 32>>,
      <<80, 82, 79, 88, 89>>,
      <<80, 82, 79, 88, 89, 32, 84, 67, 80, 52, 32, 32, 49, 46, 49, 46, 49, 46, 49, 32, 50,
        46, 50, 46, 50, 46, 50, 32, 49, 32, 50, 13, 10>>,
      <<80, 82, 79, 88, 89, 9, 84, 67, 80, 52, 32, 49, 46, 49, 46, 49, 46, 49, 32, 50, 46,
        50, 46, 50, 46, 50, 32, 49, 32, 50, 13, 10>>,
      <<80, 82, 79, 88, 89, 32, 84, 67, 80, 52, 32, 49, 46, 49, 46, 49, 46, 49, 32, 50, 46,
        50, 46, 50, 46, 50, 32, 49, 32, 50, 10, 88, 13, 10>>,
      <<80, 82, 79, 88, 89, 32, 85, 78, 75, 78, 79, 87, 78, 13, 10>>,
      <<80, 82, 79, 88, 89, 32, 84, 67, 80, 52, 32, 49, 46, 49, 46, 49, 46, 49, 32, 50, 46,
        50, 46, 50, 46, 50, 32, 97, 98, 99, 32, 52, 52, 51, 13, 10>>,
      <<80, 82, 79, 88, 89, 32, 84, 67, 80, 52, 32, 49, 46, 49, 46, 49, 46, 49, 9, 50, 46,
        50, 46, 50, 46, 50, 32, 49, 32, 50, 32, 51, 13, 10>>,
      <<80, 82, 79, 88, 89, 32, 84, 67, 80, 52, 32, 49, 46, 49, 46, 49, 46, 49, 32, 50, 46,
        50, 46, 50, 46, 50, 32, 49, 32, 50, 32, 13, 10>>,
      <<80, 82, 79, 88, 89, 32, 88, 89, 90, 32, 49, 46, 49, 46, 49, 46, 49, 32, 50, 46, 50,
        46, 50, 46, 50, 32, 49, 32, 50, 13, 10>>,
      <<80, 82, 79, 88, 89, 32, 84, 67, 80, 52, 9, 49, 46, 49, 46, 49, 46, 49, 32, 50, 46,
        50, 46, 50, 46, 50, 32, 49, 32, 50, 13, 10>>,
      <<80, 82, 79, 88, 89, 32, 84, 67, 80, 52, 32, 49, 46, 49, 46, 49, 46, 49, 32, 50, 46,
        50, 46, 50, 46, 50, 32, 55, 48, 48, 48, 48, 32, 52, 52, 51, 13, 10>>,
      <<80, 82, 79, 88, 89, 32, 84, 67, 80, 52, 32, 49, 46, 49, 46, 49, 46, 49, 32, 50, 46,
        50, 46, 50, 46, 50, 32, 49, 32, 13, 10>>,
      <<112, 114, 111, 120, 121, 32, 84, 67, 80, 52, 32, 49, 46, 49, 46, 49, 46, 49, 32, 50,
        46, 50, 46, 50, 46, 50, 32, 49, 32, 50, 13, 10>>,
      <<80, 82, 79, 88, 89, 32, 84, 67, 80, 52, 32, 32, 49, 46, 49, 46, 49, 46, 49, 32, 50,
        46, 50, 46, 50, 46, 50, 32, 49, 13, 10>> }

OtherInputs ==
    { h \in GridV2 : ~IsCutV2(h) }
    \cup OddV1
    \cup Raw
    \cup { HttpRequest, TlsHello }
    \cup { Upto(EncodeV2(Sample4, 0), k) : k \in 1..15 }
    \cup { ProxyProtocolV1Prefix \o r : r \in Raw }
    \cup { ProxyProtocolV2Prefix \o r : r \in Raw }

OtherCases ==
    { Case("other", h, <<>>, NilInfo) : h \in OtherInputs }
    \cup { Case("cut2", h, <<>>, NilInfo) : h \in { g \in GridV2 : IsCutV2(g) } }

Cases == ValidCases \cup CutCases \cup OtherCases

\* ===================================================================
\* The parsing functions applied to one input.

VARIABLES
    kind, header, payload, origin,  \* the case: the input is header \o payload
    detected,    \* <<>> or <<r>>, r what detectProxyProtocol(input) returned
    processed,   \* <<>> or <<r>>, r what processProxyProtocolData(input) returned
    parsed,      \* <<>> or <<[version, res]>>: a parser applied to the input
    enabled,            \* config.Enabled
    activeConnections,  \* connection id -> the ProxyInfo of that proxyProtocolConn
    request,            \* the last HTTP request served
    response,           \* and the response to it
    captured,           \* the connection's sniff call has answered CAPTURED
    conn,       \* the connection l.Listener.Accept() returned
    accepted,   \* what ProxyProtocolListener.Accept returned for it
    delivered,  \* the bytes the consumer's Read calls have returned so far
    goroutines,        \* the HTTP requests being served, one goroutine each
    configMu,          \* config.mu
    connectionsMutex   \* connectionsMutex

caseVars == <<kind, header, payload, origin>>
parseVars == <<detected, processed, parsed>>
httpVars == <<enabled, activeConnections, request, response, captured>>
connVars == <<conn, accepted, delivered>>
lockVars == <<goroutines, configMu, connectionsMutex>>
vars == <<caseVars, parseVars, httpVars, connVars, lockVars>>

input == header \o payload

\* bytes.NewReader(data) under a bufio.Reader: one chunk, then io.EOF
BytesReader(data) == NewReader(IF data = <<>> THEN <<>> ELSE <<data>>)

\* no request served yet
NoRequest == [handler |-> "none"]
NoResponse == [handler |-> "none"]

\* no connection made yet, and nothing returned by Accept yet
NoConn == [rd |-> <<>>, deadline |-> "none"]
NotAccepted == [state |-> "none"]

\* a sync.RWMutex nobody holds: w is the goroutine that has announced a
\* Lock (0: none), held whether it has got the lock, readers the goroutines
\* holding a read lock, blocked the ones suspended in RLock
Unlocked == [w |-> 0, held |-> FALSE, readers |-> {}, blocked |-> {}]

\* no request is being served
NoGoroutines == <<>>

\* The result variables start empty; config.Enabled starts false and
\* activeConnections empty (var config = &PluginConfig{Enabled: false},
\* make(map[string]*proxyProtocolConn)).
Init ==
    /\ \E c \in Cases :
         /\ kind = c.kind
         /\ header = c.header
         /\ payload = c.payload
         /\ origin = c.origin
    /\ detected = <<>>
    /\ processed = <<>>
    /\ parsed = <<>>
    /\ enabled = FALSE
    /\ activeConnections = <<>>
    /\ request = NoRequest
    /\ response = NoResponse
    /\ captured = FALSE
    /\ conn = NoConn
    /\ accepted = NotAccepted
    /\ delivered = <<>>
    /\ goroutines = NoGoroutines
    /\ configMu = Unlocked
    /\ connectionsMutex = Unlocked

Detect ==
    /\ detected = <<>>
    /\ detected' = <<detectProxyProtocol(input)>>
    /\ UNCHANGED <<lockVars, caseVars, processed, parsed, httpVars, connVars>>

Process ==
    /\ processed = <<>>
    /\ processed' = <<processProxyProtocolData(input)>>
    /\ UNCHANGED <<lockVars, caseVars, detected, parsed, httpVars, connVars>>

ParseV1 ==
    /\ parsed = <<>>
    /\ parsed' = <<[version |-> 1, res |-> parseProxyProtocolV1(BytesReader(input))]>>
    /\ UNCHANGED <<lockVars, caseVars, detected, processed, httpVars, connVars>>

ParseV2 ==
    /\ parsed = <<>>
    /\ parsed' = <<[version |-> 2, res |-> parseProxyProtocolV2(BytesReader(input))]>>
    /\ UNCHANGED <<lockVars, caseVars, detected, processed, httpVars, connVars>>

Next == Detect \/ Process \/ ParseV1 \/ ParseV2

Spec == Init /\ [][Next]_vars

\* ===================================================================
\* Properties of the parsing functions (specification Spec)

NoProxyPrefix(data) ==
    /\ ~HasPrefix(data, ProxyProtocolV1Prefix)
    /\ ~HasPrefix(data, ProxyProtocolV2Prefix)

\* C1: payload preservation. When the input is a complete valid header (a
\* six-field v1 line, a v2 PROXY header of a supported family with any run
\* of TLV bytes, a v2 LOCAL header) followed by a payload,
\* processProxyProtocolData succeeds and the data it returns is the payload,
\* byte for byte.
C1_PayloadPreserved ==
    (kind \in {"v1", "v2", "local"} /\ processed # <<>>) =>
        /\ ~processed[1].err
        /\ processed[1].data = Data(payload)

\* a v2 IPv4 header with TLV bytes, and a payload that is itself a v1 header
C1_Witness ==
    /\ kind = "v2"
    /\ Len(header) > 28
    /\ payload = EncodeV1(Sample4)
    /\ processed # <<>>
    /\ processed[1].data = Data(payload)

\* C2: all or nothing. processProxyProtocolData returns either no error, or
\* an error with a nil info and nil data; an input with neither PROXY prefix
\* (the empty one too) comes back unchanged with a nil info and no error.
C2_AllOrNothing ==
    processed # <<>> =>
        /\ processed[1].err => (processed[1].info = NilInfo /\ processed[1].data = NilData)
        /\ NoProxyPrefix(input) =>
              /\ ~processed[1].err
              /\ processed[1].info = NilInfo
              /\ processed[1].data = Data(input)

\* a v2 header with a short block was processed and failed
C2_Witness ==
    /\ kind = "cut2"
    /\ processed # <<>>
    /\ processed[1].err
    /\ processed[1].data = NilData

\* C3: no false positives. detectProxyProtocol returns false for the empty
\* input and for every input that starts with neither "PROXY " nor the
\* 12-byte v2 signature.
C3_NoFalsePositive ==
    (detected # <<>> /\ (input = <<>> \/ NoProxyPrefix(input))) => detected[1] = FALSE

\* the detector ran on the first eight bytes of the v2 signature
C3_Witness ==
    /\ input = Upto(ProxyProtocolV2Prefix, 8)
    /\ detected = <<FALSE>>

\* C4, as claimed: a v1 line lacking its CRLF, and a v2 header followed by
\* fewer block bytes than it declares, are neither detected nor processed
\* successfully.
C4_NoSuccessOnTruncation ==
    kind \in {"cut1", "cut2"} =>
        /\ detected # <<>> => detected[1] = FALSE
        /\ processed # <<>> => (processed[1].err /\ processed[1].info = NilInfo)

\* C4, amended: processProxyProtocolData fails, with no info, on a v1 line
\* lacking its CRLF and on a v2 header followed by fewer block bytes than it
\* declares; detectProxyProtocol does not detect the v1 line, but it does
\* detect the v2 header, whose 16 fixed bytes are all it looks at.
C4_TruncationAmended ==
    /\ kind \in {"cut1", "cut2"} =>
          (processed # <<>> => (processed[1].err /\ processed[1].info = NilInfo))
    /\ kind = "cut1" => (detected # <<>> => detected[1] = FALSE)
    /\ kind = "cut2" => (detected # <<>> => detected[1] = TRUE)

\* a v2 header with a short block: detected, and refused by the processor
C4_Witness ==
    /\ kind = "cut2"
    /\ detected = <<TRUE>>
    /\ processed # <<>>
    /\ processed[1].err

\* C5, as claimed: round trip. An endpoint encoded as a v1 line and parsed
\* by parseProxyProtocolV1, or encoded as a v2 block of length 12 or 36 and
\* parsed by parseProxyProtocolV2, comes back with the same addresses, ports
\* and transport, and with the parser's version.
C5_RoundTrip ==
    (/\ parsed # <<>>
     /\ payload = <<>>
     /\ \/ kind = "v1" /\ parsed[1].version = 1
        \/ kind = "v2" /\ parsed[1].version = 2 /\ Len(header) \in {28, 52})
    => (~parsed[1].res.err /\ parsed[1].res.info = origin)

\* ===================================================================
\* The HTTP endpoints the host calls.  A request is served in one step.
\* The body of a sniff or ingress request is the case's input: the first
\* bytes of the connection the host is asking about.

\* the value of the X-Connection-ID header: "conn-1"
ConnID == <<99, 111, 110, 110, 45, 49>>

\* w.Header().Set(name, value)
SetHeader(h, name, value) ==
    [n \in DOMAIN h \cup {name} |-> IF n = name THEN value ELSE h[n]]

\* the fields that carry the recovered client endpoint
ForwardingFields ==
    {"X-Forwarded-For", "X-Real-IP", "X-Forwarded-Port", "X-Original-Remote-Addr",
     "X-Original-Remote-Port", "X-Proxy-Protocol-Source"}

\* A response: the status code, the body (a fixed text, or the bytes written
\* with w.Write(processedData)), the header fields set, the toggle as sampled
\* at entry and whether r.Body was read.
Response(handler, code, text, data, hdr, sampled, bodyRead) ==
    [handler |-> handler, code |-> code, text |-> text, data |-> data, hdr |-> hdr,
     sampled |-> sampled, bodyRead |-> bodyRead]

TextPlain == SetHeader(<<>>, "Content-Type", "text/plain")

\* the handler as it was before the host's control codes: 200 for everything
handleProxyProtocolSniff_PlainStatus(en, req, body) ==
    IF ~en THEN Response("sniff", 200, "DISABLED", <<>>, <<>>, en, FALSE)
    ELSE IF req.readErr THEN Response("sniff", 400, "ERROR", <<>>, <<>>, en, TRUE)
    ELSE IF detectProxyProtocol(body)
         THEN Response("sniff", 200, "PROXY_PROTOCOL", <<>>, <<>>, en, TRUE)
    ELSE Response("sniff", 200, "NORMAL", <<>>, <<>>, en, TRUE)

\* handleProxyProtocolSniff, with en == config.Enabled read under the lock
handleProxyProtocolSniff(en, req, body) ==
    IF ~en THEN Response("sniff", 284, "UNHANDLED", <<>>, TextPlain, en, FALSE)
    ELSE IF req.readErr THEN Response("sniff", 580, "ERROR", <<>>, TextPlain, en, TRUE)
    ELSE IF detectProxyProtocol(body)
         THEN Response("sniff", 280, "CAPTURED", <<>>, TextPlain, en, TRUE)
    ELSE Response("sniff", 284, "UNHANDLED", <<>>, TextPlain, en, TRUE)

\* the header fields handleProxyProtocolIngress sets from a parsed info
ForwardingHeaders(proxyInfo) ==
    LET h1 == SetHeader(<<>>, "X-Original-Remote-Addr", proxyInfo.SourceAddr)
        h2 == SetHeader(h1, "X-Original-Remote-Port", Itoa(proxyInfo.SourcePort))
        h3 == SetHeader(h2, "X-Forwarded-For", proxyInfo.SourceAddr)
        h4 == SetHeader(h3, "X-Real-IP", proxyInfo.SourceAddr)
        h5 == SetHeader(h4, "X-Forwarded-Port", Itoa(proxyInfo.SourcePort))
    IN  SetHeader(h5, "X-Proxy-Protocol-Source",
                  proxyInfo.SourceAddr \o Colon \o Itoa(proxyInfo.SourcePort))

\* a plausible slip: the connection id is looked at before the toggle, and
\* the body is written out although parsing failed
handleProxyProtocolIngress_Reordered(en, req, body) ==
    LET p == processProxyProtocolData(body)
    IN  IF req.connID = <<>>
        THEN Response("ingress", 400, "No Connection ID", <<>>, <<>>, en, FALSE)
        ELSE IF ~en
        THEN Response("ingress", 503, "Proxy Protocol Handler Disabled", <<>>, <<>>, en, FALSE)
        ELSE IF req.readErr THEN Response("ingress", 400, "Read Error", <<>>, <<>>, en, TRUE)
        ELSE IF p.err THEN Response("ingress", 400, "Parse Error", body, <<>>, en, TRUE)
        ELSE Response("ingress", 200, "", p.data.bytes,
                      SetHeader(IF p.info # NilInfo THEN ForwardingHeaders(p.info) ELSE <<>>,
                                "Content-Type", "application/octet-stream"),
                      en, TRUE)

\* handleProxyProtocolIngress, with en == config.Enabled read under the lock
handleProxyProtocolIngress(en, req, body) ==
    LET p == processProxyProtocolData(body)
    IN  IF ~en
        THEN Response("ingress", 503, "Proxy Protocol Handler Disabled", <<>>, <<>>, en, FALSE)
        ELSE IF req.connID = <<>>
        THEN Response("ingress", 400, "No Connection ID", <<>>, <<>>, en, FALSE)
        ELSE IF req.readErr THEN Response("ingress", 400, "Read Error", <<>>, <<>>, en, TRUE)
        ELSE IF p.err THEN Response("ingress", 400, "Parse Error", <<>>, <<>>, en, TRUE)
        ELSE Response("ingress", 200, "", p.data.bytes,
                      SetHeader(IF p.info # NilInfo THEN ForwardingHeaders(p.info) ELSE <<>>,
                                "Content-Type", "application/octet-stream"),
                      en, TRUE)

\* the store handleProxyProtocolIngress makes under connectionsMutex:
\* conn.ProxyInfo = proxyInfo for a registered connection id
StoreProxyInfo(conns, en, req, body) ==
    LET p == processProxyProtocolData(body)
    IN  IF en /\ req.connID # <<>> /\ ~req.readErr /\ ~p.err /\ p.info # NilInfo
           /\ req.connID \in DOMAIN conns
        THEN [conns EXCEPT ![req.connID] = p.info]
        ELSE conns

\* a handler that decodes and stores before it looks at the CSRF token
handleAPIToggle_StoreFirst(en, req) ==
    IF req.method # "POST"
    THEN [enabled |-> en, code |-> 405, text |-> "Method not allowed", result |-> ""]
    ELSE IF req.decodeErr
    THEN [enabled |-> en, code |-> 400, text |-> "Invalid JSON", result |-> ""]
    ELSE IF ~req.csrf
    THEN [enabled |-> req.enabled, code |-> 403,
          text |-> "Forbidden - CSRF token not found in request", result |-> ""]
    ELSE [enabled |-> req.enabled, code |-> 200, text |-> "", result |-> "success"]

\* handleAPIToggle: the response, and config.Enabled after it
handleAPIToggle(en, req) ==
    IF req.method # "POST"
    THEN [enabled |-> en, code |-> 405, text |-> "Method not allowed", result |-> ""]
    ELSE IF ~req.csrf
    THEN [enabled |-> en, code |-> 403,
          text |-> "Forbidden - CSRF token not found in request", result |-> ""]
    ELSE IF req.decodeErr
    THEN [enabled |-> en, code |-> 400, text |-> "Invalid JSON", result |-> ""]
    ELSE [enabled |-> req.enabled, code |-> 200, text |-> "", result |-> "success"]

\* init() sets the logger before any request is served
logger == "set"

\* isPluginHealthy
isPluginHealthy == logger # "nil"

\* a handler that reports the toggle without the health check's override
handleAPIStatus_Stale(en, req) ==
    IF req.method # "GET"
    THEN [handler |-> "status", code |-> 405, text |-> "Method not allowed",
          status |-> "", enabled |-> FALSE]
    ELSE [handler |-> "status", code |-> 200, text |-> "",
          status |-> "Enabled", enabled |-> en]

\* handleAPIStatus, with en == config.Enabled read under the lock
handleAPIStatus(en, req) ==
    IF req.method # "GET"
    THEN [handler |-> "status", code |-> 405, text |-> "Method not allowed",
          status |-> "", enabled |-> FALSE]
    ELSE [handler |-> "status", code |-> 200, text |-> "",
          status |-> IF ~en THEN "Disabled"
                     ELSE IF isPluginHealthy THEN "Enabled" ELSE "Error",
          enabled |-> en /\ isPluginHealthy]

Status ==
    \E method \in {"GET", "POST"} :
        LET req == [handler |-> "status", method |-> method]
        IN  /\ request' = req
            /\ response' = handleAPIStatus(enabled, req)
            /\ UNCHANGED <<lockVars, caseVars, parseVars, connVars, enabled, activeConnections, captured>>

Sniff ==
    \E readErr \in BOOLEAN :
        LET req == [handler |-> "sniff", readErr |-> readErr, connID |-> <<>>]
        IN  /\ request' = req
            /\ response' = handleProxyProtocolSniff(enabled, req, input)
            /\ captured' = (captured \/ handleProxyProtocolSniff(enabled, req, input).code = 280)
            /\ UNCHANGED <<lockVars, caseVars, parseVars, connVars, enabled, activeConnections>>

Ingress ==
    \E readErr \in BOOLEAN, id \in {<<>>, ConnID} :
        LET req == [handler |-> "ingress", readErr |-> readErr, connID |-> id]
        IN  /\ request' = req
            /\ response' = handleProxyProtocolIngress(enabled, req, input)
            /\ activeConnections' = StoreProxyInfo(activeConnections, enabled, req, input)
            /\ UNCHANGED <<lockVars, caseVars, parseVars, connVars, enabled, captured>>

Toggle ==
    \E method \in {"GET", "POST"}, csrf \in BOOLEAN, decodeErr \in BOOLEAN, want \in BOOLEAN :
        LET req == [handler |-> "toggle", method |-> method, csrf |-> csrf,
                    decodeErr |-> decodeErr, enabled |-> want]
            r == handleAPIToggle(enabled, req)
        IN  /\ request' = req
            /\ enabled' = r.enabled
            /\ response' = [handler |-> "toggle", code |-> r.code, text |-> r.text,
                            result |-> r.result, enabled |-> r.enabled]
            /\ UNCHANGED <<lockVars, caseVars, parseVars, connVars, activeConnections, captured>>

NextHttp == Sniff \/ Ingress \/ Toggle \/ Status

\* the connections the host asks about: every valid header alone and before
\* an HTTP request, every cut header, the odd v1 lines, plain traffic and
\* v2 headers of every version, command and family
HttpCases ==
    { c \in ValidCases \cup CutCases : c.payload \in {<<>>, HttpRequest} }
    \cup { Case("other", h, <<>>, NilInfo) :
             h \in OddV1 \cup FixedPayloads \cup
                   { g \in GridV2 : Len(g) - 16 = At(g, 14) * 256 + At(g, 15) } }

InitHttp ==
    /\ \E c \in HttpCases :
         /\ kind = c.kind
         /\ header = c.header
         /\ payload = c.payload
         /\ origin = c.origin
    /\ detected = <<>>
    /\ processed = <<>>
    /\ parsed = <<>>
    /\ enabled = FALSE
    /\ activeConnections = <<>>
    /\ request = NoRequest
    /\ response = NoResponse
    /\ captured = FALSE
    /\ conn = NoConn
    /\ accepted = NotAccepted
    /\ delivered = <<>>
    /\ goroutines = NoGoroutines
    /\ configMu = Unlocked
    /\ connectionsMutex = Unlocked

SpecHttp == InitHttp /\ [][NextHttp]_vars

\* C6: handleProxyProtocolSniff answers with one of three outcomes:
\* 284 UNHANDLED when the toggle sampled at entry is off (the body is then
\* not read) or the body is not detected, 580 ERROR when the toggle is on and
\* reading the body fails, 280 CAPTURED only when the toggle is on and
\* detectProxyProtocol(body) is true.
C6_SniffOutcomes ==
    response.handler = "sniff" =>
        /\ <<response.code, response.text>> \in
              { <<284, "UNHANDLED">>, <<580, "ERROR">>, <<280, "CAPTURED">> }
        /\ ~response.sampled => (response.code = 284 /\ ~response.bodyRead)
        /\ (response.sampled /\ request.readErr) => response.code = 580
        /\ (response.sampled /\ ~request.readErr) =>
              response.code = (IF detectProxyProtocol(input) THEN 280 ELSE 284)
        /\ response.code = 280 =>
              (response.sampled /\ ~request.readErr /\ detectProxyProtocol(input))

\* a captured connection: the toggle was on and the body was a v2 header
C6_Witness ==
    /\ response.handler = "sniff"
    /\ response.code = 280
    /\ kind = "v2"
    /\ enabled

\* C7: handleProxyProtocolIngress checks, in this order, the toggle (503),
\* the X-Connection-ID header (400), the body read (400) and the parse (400
\* "Parse Error", no forwarding field, no payload byte); otherwise it
\* answers 200 with the header-stripped payload as the body and, when a
\* header was parsed, the forwarding fields set to the parsed source address
\* and port; a body without a PROXY header is returned unchanged with no
\* forwarding field.
C7_IngressOrder ==
    response.handler = "ingress" =>
        LET p == processProxyProtocolData(input)
            fwd == DOMAIN response.hdr \cap ForwardingFields
        IN  /\ ~response.sampled => response.code = 503
            /\ (response.sampled /\ request.connID = <<>>) =>
                  (response.code = 400 /\ response.text = "No Connection ID")
            /\ (response.sampled /\ request.connID # <<>> /\ request.readErr) =>
                  (response.code = 400 /\ response.text = "Read Error")
            /\ (response.sampled /\ request.connID # <<>> /\ ~request.readErr /\ p.err) =>
                  (response.code = 400 /\ response.text = "Parse Error")
            /\ response.code # 200 => (fwd = {} /\ response.data = <<>>)
            /\ (response.sampled /\ request.connID # <<>> /\ ~request.readErr /\ ~p.err) =>
                  /\ response.code = 200
                  /\ response.data = p.data.bytes
                  /\ kind \in {"v1", "v2", "local"} => response.data = payload
                  /\ NoProxyPrefix(input) => (response.data = input /\ fwd = {})
                  /\ p.info = NilInfo => fwd = {}
                  /\ p.info # NilInfo =>
                        /\ response.hdr["X-Forwarded-For"] = p.info.SourceAddr
                        /\ response.hdr["X-Real-IP"] = p.info.SourceAddr
                        /\ response.hdr["X-Original-Remote-Addr"] = p.info.SourceAddr
                        /\ response.hdr["X-Forwarded-Port"] = Itoa(p.info.SourcePort)
                  /\ kind \in {"v1"} =>
                        /\ response.hdr["X-Forwarded-For"] = origin.SourceAddr
                        /\ response.hdr["X-Forwarded-Port"] = Itoa(origin.SourcePort)

\* a v1 header in front of an HTTP request went through the ingress call
C7_Witness ==
    /\ response.handler = "ingress"
    /\ response.code = 200
    /\ kind = "v1"
    /\ payload = HttpRequest
    /\ response.data = HttpRequest
    /\ response.hdr["X-Forwarded-For"] = Client4.text

\* ===================================================================
\* The connection adapter: ProxyProtocolListener.Accept and the Read calls
\* the consumer makes on the connection it returns.
\* conn is the connection of the underlying listener: rd holds the chunks
\* its Read calls will still return, one chunk per call, and deadline is its
\* read deadline: "none", "set", or "passed" once the ReadTimeout has run out.
\* The peer sends promptly: a Read inside Accept fails only when the chunks
\* have run out.

MaxCuts == 2

\* the buffer sizes the consumer reads with
ReadSizes == {8, 100}

\* the addresses of the transport connection, as conn.RemoteAddr() and
\* conn.LocalAddr() report them
ConnRemoteAddr ==
    [network |-> "tcp", text |-> SprintfIPv4(<<10, 0, 0, 2>>) \o Colon \o Itoa(40000)]
ConnLocalAddr ==
    [network |-> "tcp", text |-> SprintfIPv4(<<10, 0, 0, 1>>) \o Colon \o Itoa(443)]

\* &proxyProtocolAddr{address, port}, its Network() and its String()
proxyProtocolAddr(address, port) == [address |-> address, port |-> port]
Network(a) == "tcp"
AddrString(a) == a.address \o Colon \o Itoa(a.port)

\* a constructor that takes the two endpoints the wrong way round
proxyProtocolConn_Swapped(proxyInfo, buf) ==
    [state |-> "wrapped", ProxyInfo |-> proxyInfo, BufReader |-> buf,
     proxyRemoteAddr |-> proxyProtocolAddr(proxyInfo.DestAddr, proxyInfo.DestPort),
     proxyLocalAddr |-> proxyProtocolAddr(proxyInfo.SourceAddr, proxyInfo.SourcePort)]

\* &proxyProtocolConn{Conn: conn, ProxyInfo: proxyInfo, BufReader: br, ...};
\* buf is what br holds buffered, the stream under br is conn.rd
proxyProtocolConn(proxyInfo, buf) ==
    [state |-> "wrapped", ProxyInfo |-> proxyInfo, BufReader |-> buf,
     proxyRemoteAddr |-> proxyProtocolAddr(proxyInfo.SourceAddr, proxyInfo.SourcePort),
     proxyLocalAddr |-> proxyProtocolAddr(proxyInfo.DestAddr, proxyInfo.DestPort)]

\* "return conn, nil": the bare connection; br, and with it the bytes br has
\* buffered, is dropped
BareConn(buf) == [state |-> "raw", dropped |-> buf]

\* RemoteAddr() and LocalAddr() of what Accept returned
RemoteAddr(c) ==
    IF c.state = "wrapped"
    THEN [network |-> Network(c.proxyRemoteAddr), text |-> AddrString(c.proxyRemoteAddr)]
    ELSE ConnRemoteAddr

LocalAddr(c) ==
    IF c.state = "wrapped"
    THEN [network |-> Network(c.proxyLocalAddr), text |-> AddrString(c.proxyLocalAddr)]
    ELSE ConnLocalAddr

\* ProxyProtocolListener.Accept on the connection c: the connection as it
\* is left, and what is returned
ListenerAccept(c) ==
    LET pk == Peek(NewReader(c.rd), 14)
        r  == IF HasPrefix(pk.peek, ProxyProtocolV1Prefix)
              THEN parseProxyProtocolV1(pk.b)
              ELSE parseProxyProtocolV2(pk.b)
    IN  IF pk.err \/ NoProxyPrefix(pk.peek)
        THEN [conn |-> [rd |-> pk.b.rd, deadline |-> "set"],
              accepted |-> BareConn(pk.b.buf)]
        ELSE IF r.err
        THEN [conn |-> [rd |-> r.b.rd, deadline |-> "set"],
              accepted |-> BareConn(r.b.buf)]
        ELSE [conn |-> [rd |-> r.b.rd, deadline |-> "none"],
              accepted |-> proxyProtocolConn(r.info, r.b.buf)]

\* net.Conn.Read(b) with len(b) == n on the bare connection: up to n bytes
\* of the next chunk; the rest of the chunk stays for the next call
ConnRead(c, n) ==
    IF c.rd = <<>> \/ c.deadline = "passed"
    THEN [p |-> <<>>, err |-> TRUE, conn |-> c]
    ELSE LET k == Min(n, Len(Head(c.rd)))
         IN  [p |-> Upto(Head(c.rd), k), err |-> FALSE,
              conn |-> [c EXCEPT !.rd = IF k < Len(Head(c.rd))
                                         THEN <<From(Head(c.rd), k)>> \o Tail(c.rd)
                                         ELSE Tail(c.rd)]]

\* proxyProtocolConn.Read(b): c.BufReader.Read(b)
WrappedRead(c, a, n) ==
    LET r == Read([buf |-> a.BufReader, rd |-> c.rd], n)
    IN  [p |-> r.p, err |-> r.err, conn |-> [c EXCEPT !.rd = r.b.rd],
         accepted |-> [a EXCEPT !.BufReader = r.b.buf]]

\* Accept: the whole call, on the connection the underlying listener made
Accept ==
    /\ accepted.state = "none"
    /\ conn' = ListenerAccept(conn).conn
    /\ accepted' = ListenerAccept(conn).accepted
    /\ UNCHANGED <<lockVars, caseVars, parseVars, httpVars, delivered>>

\* one successful Read call of the consumer on the returned connection
ConsumerRead ==
    /\ accepted.state # "none"
    /\ \E n \in ReadSizes :
         IF accepted.state = "wrapped"
         THEN LET r == WrappedRead(conn, accepted, n)
              IN  /\ ~r.err
                  /\ delivered' = delivered \o r.p
                  /\ conn' = r.conn
                  /\ accepted' = r.accepted
         ELSE LET r == ConnRead(conn, n)
              IN  /\ ~r.err
                  /\ delivered' = delivered \o r.p
                  /\ conn' = r.conn
                  /\ UNCHANGED accepted
    /\ UNCHANGED <<lockVars, caseVars, parseVars, httpVars>>

\* the ReadTimeout set by conn.SetReadDeadline(time.Now().Add(l.ReadTimeout))
\* runs out
DeadlinePasses ==
    /\ accepted.state # "none"
    /\ conn.deadline = "set"
    /\ conn' = [conn EXCEPT !.deadline = "passed"]
    /\ UNCHANGED <<lockVars, caseVars, parseVars, httpVars, accepted, delivered>>

NextConn == Accept \/ ConsumerRead \/ DeadlinePasses

\* the places where the peer's bytes are split into segments
CutPoints(h, p) == {1, 13, 14, 15, Len(h) - 1, Len(h)} \cap (1..(Len(h \o p) - 1))

\* s split at the offsets in cuts
RECURSIVE Chunks(_, _)
Chunks(s, cuts) ==
    IF cuts = {} THEN (IF s = <<>> THEN <<>> ELSE <<s>>)
    ELSE LET m == CHOOSE x \in cuts : \A y \in cuts : y <= x
         IN  Chunks(Upto(s, m), cuts \ {m}) \o <<From(s, m)>>

Segmentations(h, p) ==
    { Chunks(h \o p, cuts) :
        cuts \in { x \in SUBSET CutPoints(h, p) : Cardinality(x) <= MaxCuts } }

\* the connections the listener sees
ConnCases ==
    { c \in ValidCases \cup CutCases : c.payload \in {<<>>, HttpRequest, EncodeV1(Sample4)} }
    \cup { Case("other", h, <<>>, NilInfo) :
             h \in OddV1 \cup FixedPayloads \cup
                   { g \in GridV2 : Len(g) - 16 = At(g, 14) * 256 + At(g, 15) } }

\* l.Listener.Accept() has returned a connection on which the peer sends
\* the case's bytes in some segmentation
InitConn ==
    /\ \E c \in ConnCases :
         /\ kind = c.kind
         /\ header = c.header
         /\ payload = c.payload
         /\ origin = c.origin
         /\ \E chunks \in Segmentations(c.header, c.payload) :
              conn = [rd |-> chunks, deadline |-> "none"]
    /\ detected = <<>>
    /\ processed = <<>>
    /\ parsed = <<>>
    /\ enabled = FALSE
    /\ activeConnections = <<>>
    /\ request = NoRequest
    /\ response = NoResponse
    /\ captured = FALSE
    /\ accepted = NotAccepted
    /\ delivered = <<>>
    /\ goroutines = NoGoroutines
    /\ configMu = Unlocked
    /\ connectionsMutex = Unlocked

SpecConn == InitConn /\ [][NextConn]_vars

\* the bytes the consumer has read and will still read
Consumed == delivered \o Flatten(conn.rd)

\* C8, as claimed: no-match passthrough. When the peer's bytes start with
\* neither "PROXY " nor the v2 signature, Accept returns the bare connection
\* with the transport addresses, and the consumer's reads yield every byte
\* the peer sent, from the first one on.
C8_NoMatchPassthrough ==
    (accepted.state # "none" /\ NoProxyPrefix(input)) =>
        /\ accepted.state = "raw"
        /\ RemoteAddr(accepted) = ConnRemoteAddr
        /\ LocalAddr(accepted) = ConnLocalAddr
        /\ Consumed = input

\* C9, as claimed: header never replayed. When Accept has parsed a valid
\* v1 line, v2 PROXY header or v2 LOCAL header, the bytes the consumer reads
\* from the returned connection are exactly the bytes after the header.
C9_HeaderNeverReplayed ==
    (accepted.state = "wrapped" /\ kind \in {"v1", "v2", "local"}) =>
        delivered \o accepted.BufReader \o Flatten(conn.rd) = payload

\* C10: address substitution. On a connection Accept returns after parsing
\* a header, RemoteAddr() is "<source address>:<source port>" and
\* LocalAddr() is "<destination address>:<destination port>" of the parsed
\* info, both of network "tcp"; nothing is handed to the consumer before
\* Accept has returned, and no later step changes the two addresses.
C10_AddressSubstitution ==
    /\ [](accepted.state = "wrapped" =>
            /\ RemoteAddr(accepted) =
                 [network |-> "tcp",
                  text |-> accepted.ProxyInfo.SourceAddr \o Colon
                           \o Itoa(accepted.ProxyInfo.SourcePort)]
            /\ LocalAddr(accepted) =
                 [network |-> "tcp",
                  text |-> accepted.ProxyInfo.DestAddr \o Colon
                           \o Itoa(accepted.ProxyInfo.DestPort)]
            /\ kind = "v1" => accepted.ProxyInfo = origin)
    /\ [](accepted.state = "none" => delivered = <<>>)
    /\ [][accepted.state = "wrapped" =>
            /\ accepted'.state = "wrapped"
            /\ RemoteAddr(accepted') = RemoteAddr(accepted)
            /\ LocalAddr(accepted') = LocalAddr(accepted)]_vars

\* a v1 header was parsed, the consumer has read the whole HTTP request
\* behind it, and the connection still carries the client's address
C10_Witness ==
    /\ accepted.state = "wrapped"
    /\ kind = "v1"
    /\ payload = HttpRequest
    /\ delivered = HttpRequest
    /\ RemoteAddr(accepted).text = origin.SourceAddr \o Colon \o Itoa(origin.SourcePort)
    /\ LocalAddr(accepted).text = origin.DestAddr \o Colon \o Itoa(origin.DestPort)

\* ===================================================================
\* ProxyProtocolMiddleware: a request that arrived on an accepted
\* connection passes through the middleware before the next handler.

\* values an upstream hop has put into the request: "203.0.113.9", "8443"
UpstreamAddr == SprintfIPv4(<<203, 0, 113, 9>>)
UpstreamPort == Itoa(8443)
\* "https" and "http"
Https == <<104, 116, 116, 112, 115>>
Http == <<104, 116, 116, 112>>

\* r.Header.Get(name): "" when the field is not set
Get(h, name) == IF name \in DOMAIN h THEN h[name] ELSE <<>>

\* the request header with the given values; "" leaves a field out
RequestHeader(xff, xri, port, proto) ==
    LET all == [n \in {"X-Forwarded-For", "X-Real-IP", "X-Forwarded-Port",
                       "X-Forwarded-Proto"} |->
                  IF n = "X-Forwarded-For" THEN xff
                  ELSE IF n = "X-Real-IP" THEN xri
                  ELSE IF n = "X-Forwarded-Port" THEN port ELSE proto]
    IN  [n \in {m \in DOMAIN all : all[m] # <<>>} |-> all[n]]

\* the handler ProxyProtocolMiddleware(next) returns, applied to the request
\* req whose context holds the connection pc when req.attached: the request
\* as next.ServeHTTP receives it
ProxyProtocolMiddleware(req, pc) ==
    IF req.attached
    THEN LET h1 == IF Get(req.hdr, "X-Forwarded-For") = <<>>
                   THEN SetHeader(req.hdr, "X-Forwarded-For", pc.ProxyInfo.SourceAddr)
                   ELSE req.hdr
             h2 == SetHeader(h1, "X-Real-IP", pc.ProxyInfo.SourceAddr)
             h3 == IF Get(h2, "X-Forwarded-Proto") = <<>>
                   THEN SetHeader(h2, "X-Forwarded-Proto", IF req.TLS THEN Https ELSE Http)
                   ELSE h2
         IN  [handler |-> "middleware", RemoteAddr |-> AddrString(pc.proxyRemoteAddr),
              hdr |-> h3, next |-> TRUE]
    ELSE [handler |-> "middleware", RemoteAddr |-> req.RemoteAddr, hdr |-> req.hdr,
          next |-> TRUE]

Middleware ==
    /\ accepted.state # "none"
    /\ \E xff \in {<<>>, UpstreamAddr}, xri \in {<<>>, UpstreamAddr},
          port \in {<<>>, UpstreamPort}, proto \in {<<>>, Https},
          tls \in BOOLEAN, attached \in BOOLEAN :
         LET req == [handler |-> "middleware", hdr |-> RequestHeader(xff, xri, port, proto),
                     RemoteAddr |-> RemoteAddr(accepted).text, TLS |-> tls,
                     attached |-> attached]
         IN  /\ attached => accepted.state = "wrapped"
             /\ request' = req
             /\ response' = ProxyProtocolMiddleware(req, accepted)
    /\ UNCHANGED <<lockVars, caseVars, parseVars, connVars, enabled, activeConnections, captured>>

NextMw == Accept \/ Middleware

\* connections that carry an HTTP request, behind a header or bare
MwCases == { c \in ConnCases : c.payload = HttpRequest \/ c.header = HttpRequest }

InitMw ==
    /\ \E c \in MwCases :
         /\ kind = c.kind
         /\ header = c.header
         /\ payload = c.payload
         /\ origin = c.origin
         /\ conn = [rd |-> <<c.header \o c.payload>>, deadline |-> "none"]
    /\ detected = <<>>
    /\ processed = <<>>
    /\ parsed = <<>>
    /\ enabled = FALSE
    /\ activeConnections = <<>>
    /\ request = NoRequest
    /\ response = NoResponse
    /\ captured = FALSE
    /\ accepted = NotAccepted
    /\ delivered = <<>>
    /\ goroutines = NoGoroutines
    /\ configMu = Unlocked
    /\ connectionsMutex = Unlocked

SpecMw == InitMw /\ [][NextMw]_vars

\* C11, as claimed: first writer wins. For a request with a proxy-protocol
\* connection attached, each of X-Forwarded-For, X-Real-IP and
\* X-Forwarded-Port keeps the value the request came with, and is set to the
\* parsed source address or port when the request came without one; a request
\* with nothing attached reaches the next handler unchanged.
C11_FirstWriterWins ==
    response.handler = "middleware" =>
        /\ response.next
        /\ ~request.attached =>
              (response.hdr = request.hdr /\ response.RemoteAddr = request.RemoteAddr)
        /\ request.attached =>
              \A f \in {"X-Forwarded-For", "X-Real-IP", "X-Forwarded-Port"} :
                  Get(response.hdr, f) =
                      IF Get(request.hdr, f) # <<>> THEN Get(request.hdr, f)
                      ELSE IF f = "X-Forwarded-Port"
                           THEN Itoa(accepted.ProxyInfo.SourcePort)
                           ELSE accepted.ProxyInfo.SourceAddr

\* ===================================================================
\* The control API.

\* C12: handleAPIToggle rejects a non-POST method with 405, then a missing
\* X-CSRF-Token with 403, then an undecodable body with 400, and a rejected
\* request leaves config.Enabled as it was; an accepted request sets
\* config.Enabled to the requested value and answers 200 with result
\* "success" and that value.
C12_ToggleApi ==
    [][response'.handler = "toggle" =>
         /\ response'.code =
              (IF request'.method # "POST" THEN 405
               ELSE IF ~request'.csrf THEN 403
               ELSE IF request'.decodeErr THEN 400 ELSE 200)
         /\ response'.code # 200 => (enabled' = enabled /\ response'.result = "")
         /\ response'.code = 200 =>
              /\ enabled' = request'.enabled
              /\ response'.result = "success"
              /\ response'.enabled = request'.enabled]_vars

\* a request to switch off that lacks the CSRF token was refused and the
\* toggle is still on
C12_Witness ==
    /\ response.handler = "toggle"
    /\ response.code = 403
    /\ request.method = "POST"
    /\ ~request.enabled
    /\ enabled

\* C13: the toggle starts disabled; every GET status response reports
\* enabled equal to config.Enabled, which is the value the most recent
\* accepted toggle request set, with status "Enabled" exactly when it is true
\* and "Disabled" otherwise; any other method gets 405; a status request
\* leaves the toggle alone, and only an accepted toggle request changes it.
C13_StatusReflectsToggle ==
    /\ ~enabled
    /\ [](response.handler = "status" =>
            IF request.method = "GET"
            THEN /\ response.code = 200
                 /\ response.enabled = enabled
                 /\ response.status = (IF enabled THEN "Enabled" ELSE "Disabled")
            ELSE response.code = 405)
    /\ [][/\ response'.handler = "status" => enabled' = enabled
          /\ enabled' # enabled =>
               /\ response'.handler = "toggle"
               /\ response'.code = 200
               /\ enabled' = request'.enabled]_vars

\* after the toggle was switched on, a status request reported it
C13_Witness ==
    /\ response.handler = "status"
    /\ request.method = "GET"
    /\ response.enabled
    /\ response.status = "Enabled"
    /\ enabled

\* C14, as claimed: the toggle is sampled once per connection. Once the
\* connection's sniff call has answered CAPTURED, its ingress call has the
\* outcome it has with the toggle on, whatever the toggle is by then.
C14_SampledOncePerConnection ==
    (captured /\ response.handler = "ingress") =>
        response = handleProxyProtocolIngress(TRUE, request, input)

\* ===================================================================
\* The detection rules.

\* the line before the first CRLF, split on single spaces
LineFields(data) == Split(Upto(data, Index(data, CRLF)))

\* C15, as claimed: v1 detection rule. An input starting with "PROXY " is
\* detected only if it holds a CRLF and the line before the first CRLF,
\* split on single spaces, has at least 6 fields of which the first is
\* "PROXY"; without a CRLF, or with fewer than 6 fields, it is not detected.
C15_V1DetectionRule ==
    (detected # <<>> /\ HasPrefix(input, ProxyProtocolV1Prefix)) =>
        /\ detected[1] =>
              /\ Index(input, CRLF) # -1
              /\ Len(LineFields(input)) >= 6
              /\ LineFields(input)[1] = PROXY
        /\ (Index(input, CRLF) = -1 \/ Len(LineFields(input)) < 6) => ~detected[1]

\* C16: v2 detection rule. An input that does not start with "PROXY " is
\* detected exactly when it begins with the 12 signature bytes
\* 0D 0A 0D 0A 00 0D 0A 51 55 49 54 0A, is at least 16 bytes long, and byte
\* 12 has high nibble 2 and low nibble 0 or 1.
C16_V2DetectionRule ==
    (detected # <<>> /\ ~HasPrefix(input, ProxyProtocolV1Prefix)) =>
        (detected[1] <=>
            /\ Len(input) >= 16
            /\ SubSeq(input, 1, 12) = <<13, 10, 13, 10, 0, 13, 10, 81, 85, 73, 84, 10>>
            /\ input[13] \in {32, 33})

\* a complete 16-byte header with the signature, version 2 and command 2
\* was looked at and not detected
C16_Witness ==
    /\ detected = <<FALSE>>
    /\ Len(input) >= 16
    /\ HasPrefix(input, ProxyProtocolV2Prefix)
    /\ input[13] = 34

\* ===================================================================
\* The parsers' error handling and results.

\* C17, as claimed: no zero-fill in the v2 parser. When the header has
\* command PROXY and the stream holds fewer address-block bytes than the
\* header declares, parseProxyProtocolV2 fails and returns no info.
C17_NoZeroFill ==
    (/\ parsed # <<>>
     /\ parsed[1].version = 2
     /\ kind = "cut2"
     /\ At(header, 12) = 33) =>
        (parsed[1].res.err /\ parsed[1].res.info = NilInfo)

\* a base-10 integer: an optional sign and at least one digit, nothing else
IsInteger(s) ==
    LET t == IF s # <<>> /\ Head(s) \in {43, 45} THEN Tail(s) ELSE s
    IN  t # <<>> /\ \A i \in 1..Len(t) : IsDigit(t[i])

\* C18, as claimed: a non-integer port is a hard parse error. For a v1
\* line with at least 6 fields whose fifth or sixth field is not a base-10
\* integer, parseProxyProtocolV1 returns an error and no info.
C18_NonIntegerPort ==
    (/\ parsed # <<>>
     /\ parsed[1].version = 1
     /\ HasPrefix(input, ProxyProtocolV1Prefix)
     /\ Index(input, CRLF) # -1
     /\ Len(LineFields(input)) >= 6
     /\ ~(IsInteger(LineFields(input)[5]) /\ IsInteger(LineFields(input)[6]))) =>
        (parsed[1].res.err /\ parsed[1].res.info = NilInfo)

\* s split at every byte c
RECURSIVE SplitBy(_, _)
SplitBy(s, c) ==
    LET i == Index(s, <<c>>)
    IN  IF i = -1 THEN <<s>> ELSE <<Upto(s, i)>> \o SplitBy(From(s, i + 1), c)

\* what every IPv4 literal is: four decimal numbers up to 255 between dots
IsIPv4Literal(s) ==
    LET p == SplitBy(s, 46)
    IN  /\ Len(p) = 4
        /\ \A i \in 1..4 :
             /\ p[i] # <<>>
             /\ Len(p[i]) <= 3
             /\ \A j \in 1..Len(p[i]) : IsDigit(p[i][j])
             /\ DigitsValue(p[i]) <= 255

\* what every IPv6 literal is: hexadecimal digits, colons and dots, with at
\* least two colons
IsIPv6Literal(s) ==
    /\ \A i \in 1..Len(s) : s[i] \in (48..57) \cup (97..102) \cup (65..70) \cup {58, 46}
    /\ Cardinality({ i \in 1..Len(s) : s[i] = 58 }) >= 2

\* the invariant of an endpoint info
WellFormed(info) ==
    (~info.nil /\ info.TransportProto \in {TCP4, TCP6}) =>
        /\ info.SourcePort \in 0..65535
        /\ info.DestPort \in 0..65535
        /\ info.TransportProto = TCP4 =>
              (IsIPv4Literal(info.SourceAddr) /\ IsIPv4Literal(info.DestAddr))
        /\ info.TransportProto = TCP6 =>
              (IsIPv6Literal(info.SourceAddr) /\ IsIPv6Literal(info.DestAddr))

\* C19, as claimed: endpoint-info invariant. Every info a parser (and
\* hence processProxyProtocolData) returns with transport TCP4 or TCP6 has
\* both ports in 0..65535 and both addresses well-formed literals of the
\* matching family.
C19_EndpointInfoInvariant ==
    /\ parsed # <<>> => WellFormed(parsed[1].res.info)
    /\ processed # <<>> => WellFormed(processed[1].info)

\* C20, as claimed: v2 LOCAL command. For a header with version 2 and
\* command 0, parseProxyProtocolV2 succeeds with Version 2, transport
\* UNKNOWN, empty addresses and ports 0, and consumes exactly 16 + length
\* bytes: what is left in the stream is the payload.
C20_LocalCommand ==
    (parsed # <<>> /\ parsed[1].version = 2 /\ kind = "local") =>
        /\ ~parsed[1].res.err
        /\ parsed[1].res.info = ProxyProtocolInfo(<<>>, <<>>, 0, 0, 2, UNKNOWN)
        /\ Unread(parsed[1].res.b) = payload

\* the input is a v2 header of at least 16 bytes with version 2 and command
\* PROXY; its family is the high nibble of byte 13, its declared length the
\* big-endian number in bytes 14 and 15
IsProxyV2 ==
    /\ Len(input) >= 16
    /\ HasPrefix(input, ProxyProtocolV2Prefix)
    /\ At(input, 12) = 33
Family == At(input, 13) \div 16
Declared == At(input, 14) * 256 + At(input, 15)

\* C21: unsupported address family. A v2 PROXY header whose family nibble
\* is neither 1 nor 2 makes parseProxyProtocolV2 and processProxyProtocolData
\* fail with no info, whatever length it declares; a successful result has
\* transport TCP4 for family 1 and TCP6 for family 2, whatever the protocol
\* nibble is.
C21_UnsupportedFamily ==
    IsProxyV2 =>
        /\ (parsed # <<>> /\ parsed[1].version = 2) =>
             /\ Family \notin {1, 2} =>
                  (parsed[1].res.err /\ parsed[1].res.info = NilInfo)
             /\ ~parsed[1].res.err =>
                  parsed[1].res.info.TransportProto = (IF Family = 1 THEN TCP4 ELSE TCP6)
        /\ processed # <<>> =>
             /\ Family \notin {1, 2} =>
                  (processed[1].err /\ processed[1].info = NilInfo)
             /\ ~processed[1].err =>
                  processed[1].info.TransportProto = (IF Family = 1 THEN TCP4 ELSE TCP6)

\* a header of family 3 that declares 12 bytes and has them was refused by
\* the parser
C21_Witness ==
    /\ IsProxyV2
    /\ Family = 3
    /\ Declared = 12
    /\ Len(input) = 28
    /\ parsed # <<>>
    /\ parsed[1].version = 2
    /\ parsed[1].res.err

\* C22: family minimum length. A v2 PROXY header that declares fewer than
\* 12 bytes for IPv4, or fewer than 36 for IPv6, makes parseProxyProtocolV2
\* fail with no info, also when the declared bytes are all there; a header
\* that declares exactly 12 (IPv4) or 36 (IPv6) bytes and has them succeeds.
C22_FamilyMinimum ==
    (IsProxyV2 /\ parsed # <<>> /\ parsed[1].version = 2 /\ Family \in {1, 2}) =>
        LET min == IF Family = 1 THEN 12 ELSE 36
        IN  /\ Declared < min => (parsed[1].res.err /\ parsed[1].res.info = NilInfo)
            /\ (Declared = min /\ Len(input) >= 16 + min) =>
                 (~parsed[1].res.err /\ parsed[1].res.info # NilInfo)

\* an IPv4 header that declares 11 bytes and has them was refused
C22_Witness ==
    /\ IsProxyV2
    /\ Family = 1
    /\ Declared = 11
    /\ Len(input) = 27
    /\ parsed # <<>>
    /\ parsed[1].version = 2
    /\ parsed[1].res.err

TrimmedFields(data) == Split(TrimSpace(Upto(data, Index(data, <<10>>) + 1)))

C24_V1ConsumesOneLine ==
    (/\ parsed # <<>>
     /\ parsed[1].version = 1
     /\ HasPrefix(input, ProxyProtocolV1Prefix)) =>
        /\ Index(input, CRLF) = -1 => parsed[1].res.err
        /\ ~parsed[1].res.err =>
             Unread(parsed[1].res.b) = From(input, Index(input, CRLF) + 2)
        /\ (processed # <<>> /\ ~processed[1].err /\ ~parsed[1].res.err) =>
             processed[1].data.bytes = Unread(parsed[1].res.b)

\* C25, as claimed: no half-consumed stream. When Accept's initial peek
\* fails, or the bytes start with a PROXY prefix and the parser refuses
\* them, the connection handed to the consumer still yields every byte the
\* peer sent.
C25_NoHalfConsumedStream ==
    (/\ accepted.state = "raw"
     /\ Len(input) < 14 \/ ~NoProxyPrefix(input)) =>
        Consumed = input

\* C26, as claimed: read deadline scoping. On every path on which Accept
\* returns a connection, the read deadline it set for the peek/parse phase
\* has been cleared.
C26_DeadlineCleared ==
    accepted.state # "none" => conn.deadline = "none"

\* ===================================================================
\* Concurrent requests: net/http serves every request on a goroutine of
\* its own; the handlers meet at config.mu and connectionsMutex.

\* the number of requests in flight together
MaxRequests == 3

Goroutines == 1..MaxRequests

\* sync.RWMutex.RLock by goroutine g: granted unless a writer has announced
\* itself, in which case g is suspended until that writer's Unlock
RLock(m, g) ==
    IF m.w = 0
    THEN [m EXCEPT !.readers = @ \cup {g}]
    ELSE [m EXCEPT !.blocked = @ \cup {g}]

\* sync.RWMutex.RUnlock
RUnlock(m, g) == [m EXCEPT !.readers = @ \ {g}]

\* sync.RWMutex.Lock, first half: g excludes the other writers and
\* announces itself to the readers
LockAnnounce(m, g) == [m EXCEPT !.w = g]

\* sync.RWMutex.Lock, second half: the read locks have drained
LockAcquire(m) == [m EXCEPT !.held = TRUE]

\* sync.RWMutex.Unlock: the readers suspended meanwhile get their read
\* locks, then the next writer may come
Unlock(m) == [w |-> 0, held |-> FALSE, readers |-> m.blocked, blocked |-> {}]

Op(op, m) == [op |-> op, m |-> m]

\* the three lines every handler reads the toggle with
ReadToggleSteps ==
    <<Op("RLock", "config"), Op("Read", "config"), Op("RUnlock", "config")>>

\* an isPluginHealthy that leaves config.mu read-locked
isPluginHealthySteps_NoDefer ==
    <<Op("RLock", "config"), Op("RLock", "connections"),
      Op("RUnlock", "connections")>>

\* isPluginHealthy (logger is set): both read locks, released in reverse
\* order by the deferred calls
isPluginHealthySteps ==
    <<Op("RLock", "config"), Op("RLock", "connections"),
      Op("RUnlock", "connections"), Op("RUnlock", "config")>>

\* handleAPIStatus; ok: the method is GET; en: what it read from the toggle
handleAPIStatusSteps(ok, en) ==
    IF ~ok THEN <<>>
    ELSE ReadToggleSteps \o (IF en THEN isPluginHealthySteps ELSE <<>>)

\* a handleAPIToggle that stores without config.mu
handleAPIToggleSteps_Unlocked(ok) ==
    IF ~ok THEN <<>> ELSE <<Op("Write", "config")>>

\* handleAPIToggle; ok: POST with a CSRF token and a JSON body
handleAPIToggleSteps(ok) ==
    IF ~ok THEN <<>>
    ELSE <<Op("Lock", "config"), Op("Write", "config"), Op("Unlock", "config")>>

\* handleProxyProtocolSniff: nothing after the toggle is read takes a lock
handleProxyProtocolSniffSteps == ReadToggleSteps

\* handleProxyProtocolIngress; ok: a connection id is present, the body is
\* read and processProxyProtocolData returns an info
handleProxyProtocolIngressSteps(ok, en) ==
    ReadToggleSteps \o
    (IF en /\ ok
     THEN <<Op("Lock", "connections"), Op("Store", "connections"),
            Op("Unlock", "connections")>>
     ELSE <<>>)

\* what the goroutine r executes from start to return
Steps(r) ==
    CASE r.handler = "status"  -> handleAPIStatusSteps(r.ok, r.enabled)
      [] r.handler = "toggle"  -> handleAPIToggleSteps(r.ok)
      [] r.handler = "sniff"   -> handleProxyProtocolSniffSteps
      [] r.handler = "ingress" -> handleProxyProtocolIngressSteps(r.ok, r.enabled)

\* the requests, in a fixed order; value is the toggle's req.Enabled
LockRequests ==
    << [handler |-> "status",  ok |-> TRUE,  value |-> FALSE],
       [handler |-> "status",  ok |-> FALSE, value |-> FALSE],
       [handler |-> "toggle",  ok |-> TRUE,  value |-> TRUE],
       [handler |-> "toggle",  ok |-> TRUE,  value |-> FALSE],
       [handler |-> "toggle",  ok |-> FALSE, value |-> TRUE],
       [handler |-> "sniff",   ok |-> TRUE,  value |-> FALSE],
       [handler |-> "ingress", ok |-> TRUE,  value |-> FALSE],
       [handler |-> "ingress", ok |-> FALSE, value |-> FALSE] >>

\* a goroutine that has just been started for request q
Goroutine(q) ==
    [handler |-> q.handler, ok |-> q.ok, value |-> q.value,
     pc |-> 0, enabled |-> FALSE, responded |-> FALSE]

\* the operation goroutine g executes next
NextOp(g) ==
    LET st == Steps(goroutines[g])
    IN  IF goroutines[g].pc < Len(st)
        THEN st[goroutines[g].pc + 1]
        ELSE Op("return", "none")

Mutex(name) == IF name = "config" THEN configMu ELSE connectionsMutex

SetMutex(name, m) ==
    IF name = "config"
    THEN configMu' = m /\ UNCHANGED connectionsMutex
    ELSE connectionsMutex' = m /\ UNCHANGED configMu

\* g is not suspended in an RLock call
Runnable(g) ==
    /\ g \in DOMAIN goroutines
    /\ g \notin configMu.blocked \cup connectionsMutex.blocked

Advance(gs) ==
    goroutines' = [h \in DOMAIN goroutines |->
                     IF h \in gs
                     THEN [goroutines[h] EXCEPT !.pc = @ + 1]
                     ELSE goroutines[h]]

AcquireRead(g) ==
    /\ Runnable(g)
    /\ NextOp(g).op = "RLock"
    /\ SetMutex(NextOp(g).m, RLock(Mutex(NextOp(g).m), g))
    /\ IF Mutex(NextOp(g).m).w = 0 THEN Advance({g}) ELSE UNCHANGED goroutines
    /\ UNCHANGED <<caseVars, parseVars, httpVars, connVars>>

ReleaseRead(g) ==
    /\ Runnable(g)
    /\ NextOp(g).op = "RUnlock"
    /\ SetMutex(NextOp(g).m, RUnlock(Mutex(NextOp(g).m), g))
    /\ Advance({g})
    /\ UNCHANGED <<caseVars, parseVars, httpVars, connVars>>

AnnounceWrite(g) ==
    /\ Runnable(g)
    /\ NextOp(g).op = "Lock"
    /\ Mutex(NextOp(g).m).w = 0
    /\ SetMutex(NextOp(g).m, LockAnnounce(Mutex(NextOp(g).m), g))
    /\ UNCHANGED <<caseVars, parseVars, httpVars, connVars, goroutines>>

AcquireWrite(g) ==
    /\ Runnable(g)
    /\ NextOp(g).op = "Lock"
    /\ Mutex(NextOp(g).m).w = g
    /\ Mutex(NextOp(g).m).readers = {}
    /\ SetMutex(NextOp(g).m, LockAcquire(Mutex(NextOp(g).m)))
    /\ Advance({g})
    /\ UNCHANGED <<caseVars, parseVars, httpVars, connVars>>

ReleaseWrite(g) ==
    /\ Runnable(g)
    /\ NextOp(g).op = "Unlock"
    /\ SetMutex(NextOp(g).m, Unlock(Mutex(NextOp(g).m)))
    /\ Advance({g} \cup Mutex(NextOp(g).m).blocked)
    /\ UNCHANGED <<caseVars, parseVars, httpVars, connVars>>

\* enabled := config.Enabled
ReadEnabled(g) ==
    /\ Runnable(g)
    /\ NextOp(g).op = "Read"
    /\ goroutines' = [goroutines EXCEPT ![g].enabled = enabled, ![g].pc = @ + 1]
    /\ UNCHANGED <<caseVars, parseVars, httpVars, connVars, configMu, connectionsMutex>>

\* config.Enabled = req.Enabled
WriteEnabled(g) ==
    /\ Runnable(g)
    /\ NextOp(g).op = "Write"
    /\ enabled' = goroutines[g].value
    /\ Advance({g})
    /\ UNCHANGED <<caseVars, parseVars, connVars, configMu, connectionsMutex,
                   activeConnections, request, response, captured>>

\* if conn, exists := activeConnections[connID]; exists { ... }: nothing
\* registers a connection, so the store finds none
StoreInfo(g) ==
    /\ Runnable(g)
    /\ NextOp(g).op = "Store"
    /\ Advance({g})
    /\ UNCHANGED <<caseVars, parseVars, httpVars, connVars, configMu, connectionsMutex>>

\* the handler returns and the response goes out
Return(g) ==
    /\ Runnable(g)
    /\ NextOp(g).op = "return"
    /\ ~goroutines[g].responded
    /\ goroutines' = [goroutines EXCEPT ![g].responded = TRUE]
    /\ UNCHANGED <<caseVars, parseVars, httpVars, connVars, configMu, connectionsMutex>>

GoStep(g) ==
    \/ AcquireRead(g)
    \/ ReleaseRead(g)
    \/ AnnounceWrite(g)
    \/ AcquireWrite(g)
    \/ ReleaseWrite(g)
    \/ ReadEnabled(g)
    \/ WriteEnabled(g)
    \/ StoreInfo(g)
    \/ Return(g)

NextLock == \E g \in Goroutines : GoStep(g)

\* MaxRequests requests have arrived together; which goroutine serves
\* which is of no consequence, so they are taken in the order of
\* LockRequests
InitLock ==
    /\ kind = "other"
    /\ header = <<>>
    /\ payload = <<>>
    /\ origin = NilInfo
    /\ detected = <<>>
    /\ processed = <<>>
    /\ parsed = <<>>
    /\ enabled = FALSE
    /\ activeConnections = <<>>
    /\ request = NoRequest
    /\ response = NoResponse
    /\ captured = FALSE
    /\ conn = NoConn
    /\ accepted = NotAccepted
    /\ delivered = <<>>
    /\ \E f \in [Goroutines -> 1..Len(LockRequests)] :
         /\ \A g \in Goroutines : g > 1 => f[g - 1] <= f[g]
         /\ goroutines = [g \in Goroutines |-> Goroutine(LockRequests[f[g]])]
    /\ configMu = Unlocked
    /\ connectionsMutex = Unlocked

SpecLock == InitLock /\ [][NextLock]_vars

\* the Go scheduler does not stand still while a goroutine can run
SpecLockFair == SpecLock /\ WF_vars(NextLock)

\* C27: toggle mutual exclusion. A goroutine about to write config.Enabled
\* holds the write lock of config.mu and nobody holds a read lock; a
\* goroutine about to read it holds a read lock; so no write is concurrent
\* with another access.
C27_ToggleMutualExclusion ==
    /\ \A g \in DOMAIN goroutines :
         /\ NextOp(g).op = "Write" =>
              /\ configMu.w = g
              /\ configMu.held
              /\ configMu.readers = {}
         /\ NextOp(g).op = "Read" =>
              /\ g \in configMu.readers
              /\ ~configMu.held
    /\ \A g, h \in DOMAIN goroutines :
         (g # h /\ NextOp(g).op = "Write") => NextOp(h).op \notin {"Read", "Write"}

\* two goroutines read the toggle under their read locks at the same time
\* while a toggle request waits for the write lock
C27_Witness ==
    /\ goroutines # NoGoroutines
    /\ \E g, h \in Goroutines :
         /\ g # h
         /\ NextOp(g).op = "Read"
         /\ NextOp(h).op = "Read"
         /\ {g, h} \subseteq configMu.readers
    /\ configMu.w # 0
    /\ ~configMu.held

\* goroutine g holds or awaits nothing
HoldsNothing(g) ==
    /\ g \notin configMu.readers \cup configMu.blocked
    /\ g \notin connectionsMutex.readers \cup connectionsMutex.blocked
    /\ configMu.w # g
    /\ connectionsMutex.w # g

\* C28: deadlock freedom. Every request returns with a response, and a
\* request that has returned holds no lock of config.mu or connectionsMutex.
C28_DeadlockFreedom ==
    /\ <>(\A g \in Goroutines : g \in DOMAIN goroutines /\ goroutines[g].responded)
    /\ [](\A g \in DOMAIN goroutines : goroutines[g].responded => HoldsNothing(g))

\* all requests have returned after a status request went through
\* isPluginHealthy and an ingress request through the store under
\* connectionsMutex, and both locks are free
C28_Witness ==
    /\ goroutines # NoGoroutines
    /\ \A g \in Goroutines : goroutines[g].responded
    /\ \E g \in Goroutines :
         /\ goroutines[g].handler = "status"
         /\ goroutines[g].pc = Len(ReadToggleSteps) + Len(isPluginHealthySteps)
    /\ \E g \in Goroutines :
         /\ goroutines[g].handler = "ingress"
         /\ goroutines[g].pc = Len(ReadToggleSteps) + 3
    /\ configMu = Unlocked
    /\ connectionsMutex = Unlocked

\* C29, as claimed: detector/processor agreement. processProxyProtocolData
\* returns an info only on bytes on which detectProxyProtocol returns true.
C29_DetectorProcessorAgreement ==
    (/\ detected # <<>>
     /\ processed # <<>>
     /\ processed[1].info # NilInfo) =>
        detected[1]

\* C30, as claimed: no client identity for LOCAL. When the header is a v2
\* LOCAL header, handleProxyProtocolIngress sets none of X-Forwarded-For,
\* X-Real-IP and X-Forwarded-Port, and a connection Accept returns does not
\* report an empty address with port 0 as its RemoteAddr or LocalAddr.
C30_NoIdentityForLocal ==
    kind = "local" =>
        /\ response.handler = "ingress" =>
             DOMAIN response.hdr
               \cap {"X-Forwarded-For", "X-Real-IP", "X-Forwarded-Port"} = {}
        /\ accepted.state = "wrapped" =>
             /\ RemoteAddr(accepted).text # Colon \o Itoa(0)
             /\ LocalAddr(accepted).text # Colon \o Itoa(0)

====
